---- MODULE Spec2Model ----
(***************************************************************************)
(* Shape-level model of building_blocks/representation.py: the two         *)
(* representation networks TowerRepresentation and PyramidRepresentation.  *)
(* A tensor is modelled by its shape; every tensor operation the forward   *)
(* passes use is modelled by its shape rule, including the cases in which  *)
(* the tensor library raises a shape error.                                *)
(***************************************************************************)
EXTENDS Integers, Sequences, FiniteSets, TLC

VARIABLES net, op, x, v, out, memo

vars == <<net, op, x, v, out, memo>>

----------------------------------------------------------------------------
(* Bounds of the model.                                                    *)

MaxBatch == 2
MaxSmallSize == 5
MaxSmallRDim == 17

Batches == 1..MaxBatch
\* image heights and widths: the small ones, and those around the sizes the
\* stride schedules single out (8 = 4*2, 64 = 4*16 = 64*1, 128 = 64*2)
Sizes == (1..MaxSmallSize) \cup {8, 63, 64, 67, 128}
\* r_dim: below 16, around 16, and the multiples 32 and 256 (the default)
\* with its non-multiple neighbour.  r_dim = 1 is left out: k // 2 = 0 would
\* give conv3 and conv4 zero channels.
RDims == {2, 8} \cup (15..MaxSmallRDim) \cup {32, 256, 257}
\* PyramidRepresentation has a layer of k // 8 channels: r_dim < 8 is left out
PyramidRDims == {r \in RDims : r \div 8 >= 1}
NChannels == {1, 3}
VDims == {1, 7}
\* lengths of the viewpoint vectors passed to forward
VLens == {1, 2, 7}

Images == {<<b, c, h, w>> : b \in Batches, c \in NChannels, h \in Sizes, w \in Sizes}
Viewpoints == {<<b, n>> : b \in Batches, n \in VLens}

----------------------------------------------------------------------------
(* Tensors, by shape.                                                      *)

T(shape) == [st |-> "ok", shape |-> shape]
Raise == [st |-> "raise", shape |-> <<>>]
NotRun == [st |-> "notrun", shape |-> <<>>]

Max(a, b) == IF a >= b THEN a ELSE b

\* nn.Conv2d(in_channels, out_channels, kernel_size, stride, padding)
Conv2d(cin, cout, k, s, p) ==
  [in_channels |-> cin, out_channels |-> cout, kernel_size |-> k,
   stride |-> s, padding |-> p]

ConvOut(layer, n) ==
  ((n + 2 * layer.padding - layer.kernel_size) \div layer.stride) + 1

Conv2dForwardUnbatched(layer, t) ==
  IF t.st # "ok" THEN Raise
  ELSE IF /\ Len(t.shape) = 4
          /\ t.shape[2] = layer.in_channels
          /\ t.shape[3] + 2 * layer.padding >= layer.kernel_size
          /\ t.shape[4] + 2 * layer.padding >= layer.kernel_size
       THEN T(<<1, layer.out_channels,
                ConvOut(layer, t.shape[3]), ConvOut(layer, t.shape[4])>>)
       ELSE Raise

\* layer(t): the channel count must be the declared one and the padded input
\* must be at least as large as the kernel
Conv2dForward(layer, t) ==
  IF t.st # "ok" THEN Raise
  ELSE IF /\ Len(t.shape) = 4
          /\ t.shape[2] = layer.in_channels
          /\ t.shape[3] + 2 * layer.padding >= layer.kernel_size
          /\ t.shape[4] + 2 * layer.padding >= layer.kernel_size
       THEN T(<<t.shape[1], layer.out_channels,
                ConvOut(layer, t.shape[3]), ConvOut(layer, t.shape[4])>>)
       ELSE Raise

\* F.relu keeps the shape
Relu(t) == t

\* v.view(b, -1, 1, 1) of a 2-dimensional v
View(t, b) ==
  IF t.st # "ok" THEN Raise
  ELSE LET numel == t.shape[1] * t.shape[2]
       IN IF b >= 1 /\ numel % b = 0
          THEN T(<<b, numel \div b, 1, 1>>)
          ELSE Raise

RepeatHeightOnly(t, rh, rw) ==
  IF t.st # "ok" THEN Raise
  ELSE T(<<t.shape[1], t.shape[2], t.shape[3] * rh, t.shape[4]>>)

\* v.repeat(1, 1, rh, rw)
Repeat(t, rh, rw) ==
  IF t.st # "ok" THEN Raise
  ELSE T(<<t.shape[1], t.shape[2], t.shape[3] * rh, t.shape[4] * rw>>)

CatAnySize(a, b) ==
  IF a.st # "ok" \/ b.st # "ok" THEN Raise
  ELSE IF a.shape[1] = b.shape[1]
       THEN T(<<a.shape[1], a.shape[2] + b.shape[2], a.shape[3], a.shape[4]>>)
       ELSE Raise

\* torch.cat((a, b), dim=1): every dimension but the channels must agree
Cat(a, b) ==
  IF a.st # "ok" \/ b.st # "ok" THEN Raise
  ELSE IF /\ a.shape[1] = b.shape[1]
          /\ a.shape[3] = b.shape[3]
          /\ a.shape[4] = b.shape[4]
       THEN T(<<a.shape[1], a.shape[2] + b.shape[2], a.shape[3], a.shape[4]>>)
       ELSE Raise

\* a + b with broadcasting: per dimension equal sizes, or one of them 1
Add(a, b) ==
  IF a.st # "ok" \/ b.st # "ok" THEN Raise
  ELSE IF \A i \in 1..4 :
            \/ a.shape[i] = b.shape[i]
            \/ a.shape[i] = 1
            \/ b.shape[i] = 1
       THEN T([i \in 1..4 |-> Max(a.shape[i], b.shape[i])])
       ELSE Raise

\* nn.AvgPool2d(k)(t): kernel k, stride k, no padding
AvgPool2d(k, t) ==
  IF t.st # "ok" THEN Raise
  ELSE IF k >= 1 /\ t.shape[3] >= k /\ t.shape[4] >= k
       THEN T(<<t.shape[1], t.shape[2],
                ((t.shape[3] - k) \div k) + 1, ((t.shape[4] - k) \div k) + 1>>)
       ELSE Raise

----------------------------------------------------------------------------
(* Running a forward pass: the steps in program order; the first step that *)
(* raises ends the call and the later ones are not run.                    *)

Range(s) == {s[i] : i \in 1..Len(s)}
IndexOf(s, e) == CHOOSE i \in 1..Len(s) : s[i] = e

Run(steps, vals, ret) ==
  LET bad == {i \in 1..Len(steps) : vals[steps[i]].st = "raise"}
      first == IF bad = {} THEN 0
               ELSE CHOOSE i \in bad : \A j \in bad : i <= j
  IN [at |-> IF first = 0 THEN "none" ELSE steps[first],
      r |-> IF first = 0 THEN vals[ret] ELSE Raise,
      trace |-> [s \in Range(steps) |->
                   IF first # 0 /\ IndexOf(steps, s) > first
                   THEN NotRun ELSE vals[s]]]

----------------------------------------------------------------------------
(* TowerRepresentation                                                     *)

TowerRepresentationPoolHalf(n_channels, v_dim, r_dim, pool) ==
  LET k == r_dim
  IN [cls |-> "Tower", r_dim |-> k, pool |-> pool,
      conv1 |-> Conv2d(n_channels, k, 2, 2, 0),
      conv2 |-> Conv2d(k, k, 2, 2, 0),
      conv3 |-> Conv2d(k, k \div 2, 3, 1, 1),
      conv4 |-> Conv2d(k \div 2, k, 2, 2, 0),
      conv5 |-> Conv2d(k + v_dim, k, 3, 1, 1),
      conv6 |-> Conv2d(k + v_dim, k \div 2, 3, 1, 1),
      conv7 |-> Conv2d(k \div 2, k, 3, 1, 1),
      conv8 |-> Conv2d(k, k, 1, 1, 0),
      avgpool |-> k \div 32]

TowerRepresentationConv4Stride1(n_channels, v_dim, r_dim, pool) ==
  LET k == r_dim
  IN [cls |-> "Tower", r_dim |-> k, pool |-> pool,
      conv1 |-> Conv2d(n_channels, k, 2, 2, 0),
      conv2 |-> Conv2d(k, k, 2, 2, 0),
      conv3 |-> Conv2d(k, k \div 2, 3, 1, 1),
      conv4 |-> Conv2d(k \div 2, k, 2, 1, 0),
      conv5 |-> Conv2d(k + v_dim, k, 3, 1, 1),
      conv6 |-> Conv2d(k + v_dim, k \div 2, 3, 1, 1),
      conv7 |-> Conv2d(k \div 2, k, 3, 1, 1),
      conv8 |-> Conv2d(k, k, 1, 1, 0),
      avgpool |-> k \div 16]

TowerRepresentationConv8Stride2(n_channels, v_dim, r_dim, pool) ==
  LET k == r_dim
  IN [cls |-> "Tower", r_dim |-> k, pool |-> pool,
      conv1 |-> Conv2d(n_channels, k, 2, 2, 0),
      conv2 |-> Conv2d(k, k, 2, 2, 0),
      conv3 |-> Conv2d(k, k \div 2, 3, 1, 1),
      conv4 |-> Conv2d(k \div 2, k, 2, 2, 0),
      conv5 |-> Conv2d(k + v_dim, k, 3, 1, 1),
      conv6 |-> Conv2d(k + v_dim, k \div 2, 3, 1, 1),
      conv7 |-> Conv2d(k \div 2, k, 3, 1, 1),
      conv8 |-> Conv2d(k, k, 1, 2, 0),
      avgpool |-> k \div 16]

TowerRepresentationConv8Half(n_channels, v_dim, r_dim, pool) ==
  LET k == r_dim
  IN [cls |-> "Tower", r_dim |-> k, pool |-> pool,
      conv1 |-> Conv2d(n_channels, k, 2, 2, 0),
      conv2 |-> Conv2d(k, k, 2, 2, 0),
      conv3 |-> Conv2d(k, k \div 2, 3, 1, 1),
      conv4 |-> Conv2d(k \div 2, k, 2, 2, 0),
      conv5 |-> Conv2d(k + v_dim, k, 3, 1, 1),
      conv6 |-> Conv2d(k + v_dim, k \div 2, 3, 1, 1),
      conv7 |-> Conv2d(k \div 2, k, 3, 1, 1),
      conv8 |-> Conv2d(k, k \div 2, 1, 1, 0),
      avgpool |-> k \div 16]

TowerRepresentationConv3NoPadding(n_channels, v_dim, r_dim, pool) ==
  LET k == r_dim
  IN [cls |-> "Tower", r_dim |-> k, pool |-> pool,
      conv1 |-> Conv2d(n_channels, k, 2, 2, 0),
      conv2 |-> Conv2d(k, k, 2, 2, 0),
      conv3 |-> Conv2d(k, k \div 2, 3, 1, 0),
      conv4 |-> Conv2d(k \div 2, k, 2, 2, 0),
      conv5 |-> Conv2d(k + v_dim, k, 3, 1, 1),
      conv6 |-> Conv2d(k + v_dim, k \div 2, 3, 1, 1),
      conv7 |-> Conv2d(k \div 2, k, 3, 1, 1),
      conv8 |-> Conv2d(k, k, 1, 1, 0),
      avgpool |-> k \div 16]

\* TowerRepresentation.__init__
TowerRepresentation(n_channels, v_dim, r_dim, pool) ==
  LET k == r_dim
  IN [cls |-> "Tower", r_dim |-> k, pool |-> pool,
      conv1 |-> Conv2d(n_channels, k, 2, 2, 0),
      conv2 |-> Conv2d(k, k, 2, 2, 0),
      conv3 |-> Conv2d(k, k \div 2, 3, 1, 1),
      conv4 |-> Conv2d(k \div 2, k, 2, 2, 0),
      conv5 |-> Conv2d(k + v_dim, k, 3, 1, 1),
      conv6 |-> Conv2d(k + v_dim, k \div 2, 3, 1, 1),
      conv7 |-> Conv2d(k \div 2, k, 3, 1, 1),
      conv8 |-> Conv2d(k, k, 1, 1, 0),
      avgpool |-> k \div 16]

TowerSteps ==
  <<"view", "repeat", "conv1", "conv2", "conv3", "conv4", "add1", "cat",
    "conv5", "conv6", "conv7", "add2", "conv8", "avgpool">>

\* TowerRepresentation.forward(x0, v0), x0 and v0 the shapes of x and v
TowerForward(self, x0, v0) ==
  LET v1 == View(T(v0), v0[1])
      v2 == Repeat(v1, self.r_dim \div 16, self.r_dim \div 16)
      skip_in == Relu(Conv2dForward(self.conv1, T(x0)))
      skip_out == Relu(Conv2dForward(self.conv2, skip_in))
      x3 == Relu(Conv2dForward(self.conv3, skip_in))
      x4 == Relu(Conv2dForward(self.conv4, x3))
      sum1 == Add(x4, skip_out)
      merged == Cat(sum1, v2)
      skip_out2 == Relu(Conv2dForward(self.conv5, merged))
      x6 == Relu(Conv2dForward(self.conv6, merged))
      x7 == Relu(Conv2dForward(self.conv7, x6))
      sum2 == Add(x7, skip_out2)
      r8 == Relu(Conv2dForward(self.conv8, sum2))
      pooled == IF self.pool THEN AvgPool2d(self.avgpool, r8) ELSE NotRun
  IN Run(TowerSteps,
         [view |-> v1, repeat |-> v2, conv1 |-> skip_in, conv2 |-> skip_out,
          conv3 |-> x3, conv4 |-> x4, add1 |-> sum1, cat |-> merged,
          conv5 |-> skip_out2, conv6 |-> x6, conv7 |-> x7, add2 |-> sum2,
          conv8 |-> r8, avgpool |-> pooled],
         IF self.pool THEN "avgpool" ELSE "conv8")

----------------------------------------------------------------------------
(* PyramidRepresentation                                                   *)

PyramidRepresentationStride4(n_channels, v_dim, r_dim) ==
  LET k == r_dim
  IN [cls |-> "Pyramid", r_dim |-> k,
      conv1 |-> Conv2d(n_channels + v_dim, k \div 8, 2, 2, 0),
      conv2 |-> Conv2d(k \div 8, k \div 4, 2, 2, 0),
      conv3 |-> Conv2d(k \div 4, k \div 2, 2, 2, 0),
      conv4 |-> Conv2d(k \div 2, k, 4, 4, 0)]

\* PyramidRepresentation.__init__
PyramidRepresentation(n_channels, v_dim, r_dim) ==
  LET k == r_dim
  IN [cls |-> "Pyramid", r_dim |-> k,
      conv1 |-> Conv2d(n_channels + v_dim, k \div 8, 2, 2, 0),
      conv2 |-> Conv2d(k \div 8, k \div 4, 2, 2, 0),
      conv3 |-> Conv2d(k \div 4, k \div 2, 2, 2, 0),
      conv4 |-> Conv2d(k \div 2, k, 8, 8, 0)]

PyramidSteps ==
  <<"view", "repeat", "cat", "conv1", "conv2", "conv3", "conv4">>

\* PyramidRepresentation.forward(x0, v0), x0 and v0 the shapes of x and v
PyramidForward(self, x0, v0) ==
  LET batch_size == x0[1]
      h == x0[3]
      w == x0[4]
      v1 == View(T(v0), batch_size)
      v2 == Repeat(v1, h, w)
      r0 == Cat(T(x0), v2)
      r1 == Relu(Conv2dForward(self.conv1, r0))
      r2 == Relu(Conv2dForward(self.conv2, r1))
      r3 == Relu(Conv2dForward(self.conv3, r2))
      r4 == Relu(Conv2dForward(self.conv4, r3))
  IN Run(PyramidSteps,
         [view |-> v1, repeat |-> v2, cat |-> r0, conv1 |-> r1,
          conv2 |-> r2, conv3 |-> r3, conv4 |-> r4],
         "conv4")

----------------------------------------------------------------------------
(* The state: the module object under use, the last operation, the         *)
(* arguments of the last forward call and its outcome; memo is the history *)
(* of the calls made on the object since its construction.                 *)

NoNet == [cls |-> "none"]
NoCall == [at |-> "nocall", r |-> NotRun, trace |-> <<>>]

Init ==
  /\ net = NoNet
  /\ op = "init"
  /\ x = <<>>
  /\ v = <<>>
  /\ out = NoCall
  /\ memo = {}

NewTower(n_channels, v_dim, r_dim, pool) ==
  /\ net' = TowerRepresentation(n_channels, v_dim, r_dim, pool)
  /\ op' = "construct"
  /\ x' = <<>>
  /\ v' = <<>>
  /\ out' = NoCall
  /\ memo' = {}

NewPyramid(n_channels, v_dim, r_dim) ==
  /\ net' = PyramidRepresentation(n_channels, v_dim, r_dim)
  /\ op' = "construct"
  /\ x' = <<>>
  /\ v' = <<>>
  /\ out' = NoCall
  /\ memo' = {}

CallTowerCachingSize(img, vp) ==
  /\ net.cls = "Tower"
  /\ x' = img
  /\ v' = vp
  /\ out' = TowerForward(net, img, vp)
  /\ net' = [net EXCEPT !.r_dim = img[3]]
  /\ op' = "forward"

\* a call of TowerRepresentation.forward: no attribute of self is assigned
CallTower(img, vp) ==
  /\ net.cls = "Tower"
  /\ x' = img
  /\ v' = vp
  /\ out' = TowerForward(net, img, vp)
  /\ net' = net
  /\ op' = "forward"

\* a call of PyramidRepresentation.forward: no attribute of self is assigned
CallPyramid(img, vp) ==
  /\ net.cls = "Pyramid"
  /\ x' = img
  /\ v' = vp
  /\ out' = PyramidForward(net, img, vp)
  /\ net' = net
  /\ op' = "forward"

\* The program builds one module object and then calls its forward method.
ConstructTower ==
  /\ op = "init"
  /\ \E n \in NChannels, vd \in VDims, r \in RDims, p \in BOOLEAN :
       NewTower(n, vd, r, p)

ConstructPyramid ==
  /\ op = "init"
  /\ \E n \in NChannels, vd \in VDims, r \in PyramidRDims :
       NewPyramid(n, vd, r)

\* the first forward call on the object, over every image and viewpoint
ForwardTower ==
  /\ op = "construct"
  /\ \E img \in Images, vp \in Viewpoints :
       CallTower(img, vp) /\ UNCHANGED memo

ForwardPyramid ==
  /\ op = "construct"
  /\ \E img \in Images, vp \in Viewpoints :
       CallPyramid(img, vp) /\ UNCHANGED memo

Next ==
  \/ ConstructTower
  \/ ConstructPyramid
  \/ ForwardTower
  \/ ForwardPyramid

Spec == Init /\ [][Next]_vars

----------------------------------------------------------------------------
(* Repeated calls: any number of forward calls on the object, over a few   *)
(* inputs; memo collects the calls that came before the last one.          *)

ProbeImages == {<<1, 3, 4, 4>>, <<1, 3, 64, 64>>, <<2, 3, 64, 64>>}
ProbeViewpoints == {<<b, 7>> : b \in {1, 2}}

Remember ==
  memo' = IF op = "forward"
          THEN memo \cup {[x |-> x, v |-> v, out |-> out]}
          ELSE memo

RepeatTower ==
  /\ op \in {"construct", "forward"}
  /\ \E img \in ProbeImages, vp \in ProbeViewpoints :
       CallTower(img, vp) /\ Remember

RepeatPyramid ==
  /\ op \in {"construct", "forward"}
  /\ \E img \in ProbeImages, vp \in ProbeViewpoints :
       CallPyramid(img, vp) /\ Remember

NextRepeat ==
  \/ ConstructTower
  \/ ConstructPyramid
  \/ RepeatTower
  \/ RepeatPyramid

SpecRepeat == Init /\ [][NextRepeat]_vars

----------------------------------------------------------------------------
(* Vocabulary of the properties.                                           *)

Called == op = "forward"
Completed == Called /\ out.at = "none"
IsTower == net.cls = "Tower"
IsPyramid == net.cls = "Pyramid"

\* the call is the one the contracts speak of: an image of shape
\* (B, n_channels, H, W) and a viewpoint of shape (B, v_dim)
WellShaped(n_channels, v_dim) ==
  /\ x[2] = n_channels
  /\ v = <<x[1], v_dim>>

\* the arguments the tower under use was constructed with, read back from
\* the object: (n_channels, v_dim, r_dim, pool)
TowerArgs ==
  <<net.conv1.in_channels, net.conv5.in_channels - net.r_dim, net.r_dim, net.pool>>

----------------------------------------------------------------------------
(* C1 as stated: for every r_dim divisible by 16, the pooling tower        *)
(* applied to a 64 x 64 image of n_channels channels and a viewpoint of    *)
(* shape (B, v_dim) completes and returns shape (B, r_dim, 1, 1).          *)
C1_AsStated ==
  LET c == TowerArgs IN
    (/\ IsTower /\ Called /\ WellShaped(c[1], c[2])
     /\ c[4] = TRUE
     /\ c[3] % 16 = 0
     /\ x[3] = 64 /\ x[4] = 64)
    => /\ out.at = "none"
       /\ out.r = T(<<x[1], c[3], 1, 1>>)

(* C1, amended: for every r_dim divisible by 16, the pooling tower applied *)
(* to an image of shape (B, n_channels, H, W) with floor(H/4) =            *)
(* floor(W/4) = r_dim/16 and a viewpoint of shape (B, v_dim) completes and *)
(* returns shape (B, r_dim, 1, 1); on a 64 x 64 image it completes exactly *)
(* when r_dim = 256 and raises for every other multiple of 16.             *)
C1_PooledShape ==
  LET c == TowerArgs IN
    (/\ IsTower /\ Called /\ WellShaped(c[1], c[2])
     /\ c[4] = TRUE
     /\ c[3] % 16 = 0)
    => /\ (x[3] \div 4 = c[3] \div 16 /\ x[4] \div 4 = c[3] \div 16)
            => (out.at = "none" /\ out.r = T(<<x[1], c[3], 1, 1>>))
       /\ (x[3] = 64 /\ x[4] = 64)
            => (out.at = "none" <=> c[3] = 256)

\* a pooling tower of r_dim = 32 has returned (B, 32, 1, 1) for an 8 x 8 image
C1_Witness ==
  /\ Completed /\ IsTower
  /\ net.pool /\ net.r_dim = 32
  /\ x[3] = 8 /\ x[4] = 8
  /\ out.r.shape = <<x[1], 32, 1, 1>>

(* C2: with n_channels = 3, v_dim = 7, r_dim = 256, an image (1,3,64,64)   *)
(* and a viewpoint (1,7), forward returns (1,256,1,1) with pool and        *)
(* (1,256,16,16) without; both residual sums add tensors of equal shape    *)
(* and the concatenation joins tensors of equal batch and spatial size.    *)
C2_Scenario ==
  \A p \in BOOLEAN :
    (/\ net = TowerRepresentation(3, 7, 256, p) /\ Called
     /\ x = <<1, 3, 64, 64>> /\ v = <<1, 7>>)
    => /\ out.at = "none"
       /\ out.r = T(IF p THEN <<1, 256, 1, 1>> ELSE <<1, 256, 16, 16>>)
       /\ out.trace["conv4"] = out.trace["conv2"]
       /\ out.trace["add1"] = T(<<1, 256, 16, 16>>)
       /\ out.trace["repeat"] = T(<<1, 7, 16, 16>>)
       /\ out.trace["cat"] = T(<<1, 263, 16, 16>>)
       /\ out.trace["conv7"] = out.trace["conv5"]
       /\ out.trace["add2"] = T(<<1, 256, 16, 16>>)

\* the scenario without pooling has returned (1, 256, 16, 16)
C2_Witness ==
  /\ net = TowerRepresentation(3, 7, 256, FALSE) /\ Called
  /\ x = <<1, 3, 64, 64>> /\ v = <<1, 7>>
  /\ out.r = T(<<1, 256, 16, 16>>)

(* C3 as stated: whenever PyramidRepresentation.forward completes, the     *)
(* output height is H/32 and the output width is W/32.                     *)
C3_AsStated ==
  (Completed /\ IsPyramid)
  => /\ out.r.shape[3] = x[3] \div 32
     /\ out.r.shape[4] = x[4] \div 32

(* C3, amended: whenever PyramidRepresentation.forward completes, the      *)
(* output height is floor(H/64) and the output width is floor(W/64) (the   *)
(* product of the strides 2, 2, 2, 8 is 64), and H and W are at least 64.  *)
C3_PyramidSpatial ==
  (Completed /\ IsPyramid)
  => /\ out.r.shape[3] = x[3] \div 64
     /\ out.r.shape[4] = x[4] \div 64
     /\ x[3] >= 64 /\ x[4] >= 64

\* a pyramid has returned spatial size 2 x 1 for a 128 x 67 image
C3_Witness ==
  /\ Completed /\ IsPyramid
  /\ x[3] = 128 /\ x[4] = 67
  /\ out.r.shape[3] = 2 /\ out.r.shape[4] = 1

(* C4: whenever forward of a tower with pool=False completes, the output   *)
(* height is floor(H/4), the output width floor(W/4), both at least 1.     *)
C4_UnpooledSpatial ==
  (Completed /\ IsTower /\ ~net.pool)
  => /\ out.r.shape[3] = x[3] \div 4
     /\ out.r.shape[4] = x[4] \div 4
     /\ out.r.shape[3] >= 1 /\ out.r.shape[4] >= 1

\* a tower without pooling has returned 16 x 16 for a 67 x 64 image
C4_Witness ==
  /\ Completed /\ IsTower /\ ~net.pool
  /\ x[3] = 67 /\ x[4] = 64
  /\ out.r.shape[3] = 16 /\ out.r.shape[4] = 16

(* C5 as stated: a tower whose r_dim is not divisible by 16 raises in the  *)
(* first forward call, for every image and viewpoint.                      *)
C5_AsStated ==
  (Called /\ IsTower /\ net.r_dim % 16 # 0) => out.at # "none"

(* C5, amended: a tower whose r_dim is not divisible by 16 raises in the   *)
(* first forward call for every image and viewpoint when r_dim < 16; when  *)
(* r_dim > 16 the call completes exactly on an image of n_channels         *)
(* channels with floor(H/4) = floor(W/4) = r_dim // 16 and a viewpoint of  *)
(* shape (B, v_dim), and raises on every other input.                      *)
C5_NotDivisible ==
  LET c == TowerArgs IN
    (IsTower /\ Called /\ c[3] % 16 # 0)
    => (out.at = "none" <=>
          /\ c[3] > 16
          /\ WellShaped(c[1], c[2])
          /\ x[3] \div 4 = c[3] \div 16
          /\ x[4] \div 4 = c[3] \div 16)

\* a tower of r_dim = 15 has raised on a well-shaped 4 x 4 image
C5_Witness ==
  /\ Called /\ IsTower
  /\ net.r_dim = 15
  /\ x[3] = 4 /\ x[4] = 4
  /\ x[2] = net.conv1.in_channels
  /\ v = <<x[1], net.conv5.in_channels - net.r_dim>>
  /\ out.at = "cat"

(* C6: for both modules, whenever forward completes on an image of batch   *)
(* size B, the output's first dimension is B, and so is the first          *)
(* dimension of every intermediate tensor of the call.                     *)
C6_BatchPreserved ==
  Completed
  => /\ out.r.shape[1] = x[1]
     /\ \A s \in DOMAIN out.trace :
          out.trace[s].st = "ok" => out.trace[s].shape[1] = x[1]

\* a pyramid has completed on a batch of more than one image
C6_Witness ==
  /\ Completed /\ IsPyramid
  /\ x[1] > 1
  /\ out.r.shape[1] = x[1]

\* the tensor each convolution of the call was applied to
ConvInput(step) ==
  IF IsTower
  THEN CASE step = "conv1" -> T(x)
         [] step = "conv2" -> out.trace["conv1"]
         [] step = "conv3" -> out.trace["conv1"]
         [] step = "conv4" -> out.trace["conv3"]
         [] step = "conv5" -> out.trace["cat"]
         [] step = "conv6" -> out.trace["cat"]
         [] step = "conv7" -> out.trace["conv6"]
         [] step = "conv8" -> out.trace["add2"]
  ELSE CASE step = "conv1" -> out.trace["cat"]
         [] step = "conv2" -> out.trace["conv1"]
         [] step = "conv3" -> out.trace["conv2"]
         [] step = "conv4" -> out.trace["conv3"]

ConvSteps ==
  IF IsTower
  THEN {"conv1", "conv2", "conv3", "conv4", "conv5", "conv6", "conv7", "conv8"}
  ELSE {"conv1", "conv2", "conv3", "conv4"}

(* C7: for both modules, whenever forward completes the output has four    *)
(* dimensions and exactly r_dim channels, and every convolution of the     *)
(* chain was applied to a tensor whose channel count is the layer's        *)
(* declared input-channel count.                                           *)
C7_Channels ==
  Completed
  => /\ Len(out.r.shape) = 4
     /\ out.r.shape[2] = net.r_dim
     /\ \A s \in ConvSteps :
          /\ ConvInput(s).st = "ok"
          /\ ConvInput(s).shape[2] = net[s].in_channels

\* a tower of odd r_dim has completed and returned r_dim channels
C7_Witness ==
  /\ Completed /\ IsTower
  /\ net.r_dim = 17
  /\ out.r.shape[2] = 17
  /\ out.trace["conv3"].shape[2] = 8

\* two calls with the same image and viewpoint had the same outcome
SameInputSameOutcome ==
  \A m \in memo : (Called /\ m.x = x /\ m.v = v) => m.out = out

C9_AsStated ==
  LET c == TowerArgs IN
    (IsTower /\ Called /\ WellShaped(c[1], c[2]) /\ c[3] >= 16)
    => /\ out.at = "none" <=>
            (x[3] \div 4 = c[3] \div 16 /\ x[4] \div 4 = c[3] \div 16)
       /\ out.at # "none" => out.at = "cat"
       /\ (out.at = "none" /\ c[4])
            => (out.r.shape[3] = 1 /\ out.r.shape[4] = 1)

(* C9, amended: for r_dim >= 16, an image (B, n_channels, H, W) and a      *)
(* viewpoint (B, v_dim), forward of the tower completes iff floor(H/4) =   *)
(* floor(W/4) = r_dim // 16; in every other case with H >= 4 and W >= 4    *)
(* the concatenation raises, and with H < 4 or W < 4 conv1 (H or W below   *)
(* 2) or conv2 raises before it; a completed call with pool=True returns   *)
(* spatial size 1 x 1.                                                     *)
C9_Broadcast ==
  LET c == TowerArgs IN
    (IsTower /\ Called /\ WellShaped(c[1], c[2]) /\ c[3] >= 16)
    => /\ out.at = "none" <=>
            (x[3] \div 4 = c[3] \div 16 /\ x[4] \div 4 = c[3] \div 16)
       /\ out.at # "none" =>
            out.at = (IF x[3] < 2 \/ x[4] < 2 THEN "conv1"
                      ELSE IF x[3] < 4 \/ x[4] < 4 THEN "conv2"
                      ELSE "cat")
       /\ (out.at = "none" /\ c[4])
            => (out.r.shape[3] = 1 /\ out.r.shape[4] = 1)

\* the concatenation has raised on a non-square image with one fitting side
C9_Witness ==
  /\ Called /\ IsTower
  /\ WellShaped(TowerArgs[1], TowerArgs[2])
  /\ net.r_dim = 256
  /\ x[3] = 64 /\ x[4] = 128
  /\ out.at = "cat"
  /\ out.trace["add1"].shape[3] = 16
  /\ out.trace["add1"].shape[4] = 32

(* C10: in the tower's forward, whenever conv4 has run its result and      *)
(* skip_out both have shape (B, r_dim, floor(floor(H/2)/2),                *)
(* floor(floor(W/2)/2)), and whenever conv7 has run its result and the     *)
(* conv5 result both have shape (B, r_dim, h, w) of the merged tensor; no  *)
(* call fails at a residual sum.                                           *)
C10_ResidualShapes ==
  (IsTower /\ Called)
  => /\ out.trace["conv4"].st = "ok" =>
          /\ out.trace["conv4"].shape =
               <<x[1], net.r_dim, (x[3] \div 2) \div 2, (x[4] \div 2) \div 2>>
          /\ out.trace["conv2"] = out.trace["conv4"]
          /\ out.trace["add1"] = out.trace["conv4"]
     /\ out.trace["conv7"].st = "ok" =>
          /\ out.trace["conv7"].shape =
               <<out.trace["cat"].shape[1], net.r_dim,
                 out.trace["cat"].shape[3], out.trace["cat"].shape[4]>>
          /\ out.trace["conv5"] = out.trace["conv7"]
          /\ out.trace["add2"] = out.trace["conv7"]
     /\ out.at \notin {"add1", "add2"}

\* both residual sums have run on an image whose sizes are not multiples of 4
C10_Witness ==
  /\ Called /\ IsTower
  /\ x[3] = 67 /\ x[4] = 67
  /\ out.trace["add1"] = T(<<x[1], net.r_dim, 16, 16>>)
  /\ out.trace["add2"] = T(<<x[1], net.r_dim, 16, 16>>)

====
